---- MODULE Spec2Model ----
(***************************************************************************)
(* Pageset storage and layout allocation of td_utils_simple.py.            *)
(*                                                                         *)
(* The store is the SQLite pageset file: one set of rows per table, each   *)
(* row a record keyed by its integer Id, and the sqlite_sequence table.    *)
(* Tables are scanned in rowid (Id) order.  Text columns that hold packed  *)
(* integers ("c,r") are kept as the sequence of their comma-separated      *)
(* fields.                                                                 *)
(***************************************************************************)
EXTENDS Integers, Sequences, FiniteSets, TLC

VARIABLES store, ref, prev, last, pending, caller

vars == <<store, ref, prev, last, pending, caller>>

(* ------------------------------ bounds -------------------------------- *)

\* Largest number of items in one insertion batch.
MaxItems == 2

\* Largest number of Button rows a store may hold before a batch is started.
MaxButtons == 2

\* Largest column and row count of a layout (at least 2: the Dashboard's
\* layout is 2 by 2).
MaxCols == 2

MaxRows == 2

(* ------------------------- program constants -------------------------- *)

\* npages in find_available_positions.
npages == 10

\* len(SLIDE_COLORS): the palette is kept as its indices.
NumSlideColors == 20

\* total_pages in get_grid_capacity.
total_pages == 10

\* reserved_cells in get_grid_capacity.
reserved_cells == 19

(* ------------------------------ helpers ------------------------------- *)

Max(a, b) == IF a >= b THEN a ELSE b

MaxId(rows) == IF rows = {} THEN 0 ELSE CHOOSE m \in {r.Id : r \in rows} : \A r \in rows : r.Id <= m

MinIdRow(rows) == CHOOSE r \in rows : \A q \in rows : r.Id <= q.Id

\* The rows of a table in rowid order, as a cursor returns them.
RECURSIVE fetchall(_)
fetchall(rows) ==
    IF rows = {} THEN <<>>
    ELSE LET r == MinIdRow(rows) IN <<r>> \o fetchall(rows \ {r})

Range(s) == {s[i] : i \in DOMAIN s}

NoError == [kind |-> "none"]

(* ------------------------- the SQLite engine -------------------------- *)

\* sqlite_sequence after a row with rowid id went into AUTOINCREMENT table t.
BumpSequence(seqRows, t, id) ==
    LET old == {r \in seqRows : r.name = t} IN
    IF old = {} THEN seqRows \cup {[name |-> t, seq |-> id]}
    ELSE {r \in seqRows : r.name # t}
         \cup {[name |-> t, seq |-> Max(r.seq, id)] : r \in old}

SequenceOf(db, t) ==
    LET rows == {r \in db.sqlite_sequence : r.name = t} IN
    IF rows = {} THEN 0 ELSE (CHOOSE r \in rows : TRUE).seq

\* The rowid SQLite assigns to a row inserted with Id NULL.
AutoId(db, t) == Max(MaxId(db[t]), SequenceOf(db, t)) + 1

\* A transaction: the connection's view of the database, the number of write
\* statements it has executed, and the exception that ended it (if any).
Begin(db) == [db |-> db, writes |-> 0, err |-> NoError]

\* One write statement: it raises when it is the failing write of this call
\* or when it breaks a constraint; after an earlier exception it never runs.
Execute(tx, fail, violation, newdb) ==
    IF tx.err.kind # "none" THEN tx
    ELSE IF tx.writes + 1 = fail THEN [tx EXCEPT !.err = [kind |-> "io"]]
    ELSE IF violation THEN [tx EXCEPT !.err = [kind |-> "integrity"]]
    ELSE [tx EXCEPT !.db = newdb, !.writes = @ + 1]

\* A primary key of newRows is taken already, or given twice.
KeyTaken(rows, newRows) ==
    \/ \E r \in newRows : \E q \in rows : q.Id = r.Id
    \/ \E r1 \in newRows : \E r2 \in newRows : r1 # r2 /\ r1.Id = r2.Id

\* One INSERT of the rows newRows, Ids given, into AUTOINCREMENT table t.
InsertRows(tx, t, newRows, fail) ==
    Execute(tx, fail, KeyTaken(tx.db[t], newRows),
            [tx.db EXCEPT
               ![t] = @ \cup newRows,
               !.sqlite_sequence =
                   IF newRows = {} THEN @ ELSE BumpSequence(@, t, MaxId(newRows))])

(* ------------------------- Schema Accessor ---------------------------- *)

\* Mutant: the Message Bar page is not ignored.
rows_to_ignore_DashboardOnly == {"Dashboard"}

rows_to_ignore == {"Dashboard", "Message Bar"}

\* PageLayoutSetting "cols,rows,...": the first two comma-separated integers.
ParseLayoutSetting(setting) == SubSeq(setting, 1, 2)

\* get_page_layout_details: the Board's id and its layouts (id, columns,
\* rows) in rowid order, or the ValueError it raises.
get_page_layout_details(db) ==
    LET rows == fetchall({p \in db.Page : p.Title \notin rows_to_ignore}) IN
    IF Len(rows) = 0
    THEN [err |-> [kind |-> "config", titles |-> <<>>], pageId |-> 0, layouts |-> <<>>]
    ELSE IF Len(rows) # 1
    THEN [err |-> [kind |-> "config", titles |-> [i \in 1..Len(rows) |-> rows[i].Title]],
          pageId |-> 0, layouts |-> <<>>]
    ELSE LET pageId == rows[1].Id
             settings == fetchall({l \in db.PageLayout : l.PageId = pageId})
         IN [err |-> NoError,
             pageId |-> pageId,
             layouts |-> [i \in 1..Len(settings) |->
                            [id |-> settings[i].Id,
                             ncols |-> ParseLayoutSetting(settings[i].PageLayoutSetting)[1],
                             nrows |-> ParseLayoutSetting(settings[i].PageLayoutSetting)[2]]]]

(* ----------------------- Grid Position Allocator ---------------------- *)

\* Mutant: the text is written row first.
FormatGridPosition_RowFirst(c, r) == <<r, c>>

\* GridPosition text 'c,r' as written by add_button_placement.
FormatGridPosition(c, r) == <<c, r>>

\* c, r = map(int, text.split(',')).
ParseGridPosition(text) == <<text[1], text[2]>>

\* Mutant: the loops are nested the other way round, columns outermost.
CandidatePositions_ColumnMajor(ncols, nrows) ==
    [k \in 1..(ncols * nrows * npages) |->
        <<(k - 1) \div (nrows * npages), (k - 1) % (nrows * npages)>>]

\* (c, r) for r in range(nrows * npages) for c in range(ncols): every cell of
\* the chained grid, rows outermost.
CandidatePositions(ncols, nrows) ==
    [k \in 1..(ncols * nrows * npages) |-> <<(k - 1) % ncols, (k - 1) \div ncols>>]

\* Mutant: the top-right cell of the first page is excluded too.
IsReserved_FirstPageToo(pos, ncols, nrows) ==
    LET c == pos[1]
        r == pos[2]
    IN \/ (c = ncols - 1 /\ r % nrows = nrows - 1)
       \/ (c = ncols - 1 /\ r % nrows = 0)

\* The navigation cells the comprehension's condition leaves out.
IsReserved(pos, ncols, nrows) ==
    LET c == pos[1]
        r == pos[2]
    IN \/ (c = ncols - 1 /\ r % nrows = nrows - 1)
       \/ (c = ncols - 1 /\ r % nrows = 0 /\ r # 0)

\* The list the comprehension builds for a grid of ncols columns and nrows
\* rows.
KeptPositions(ncols, nrows) ==
    LET Keep(pos) == ~IsReserved(pos, ncols, nrows)
    IN SelectSeq(CandidatePositions(ncols, nrows), Keep)

\* That list for every grid shape a layout of the stores can have; it
\* depends on nothing but the shape.
PositionTable == [c \in 1..MaxCols, r \in 1..MaxRows |-> KeptPositions(c, r)]

all_positions(ncols, nrows) == PositionTable[ncols, nrows]

\* Mutant: only the first row of the cursor is read.
ParseOccupied_FirstRowOnly(rows) ==
    IF Len(rows) = 0 THEN {} ELSE {ParseGridPosition(rows[1].GridPosition)}

\* The loop over cursor.fetchall(): the set of the parsed GridPosition of
\* every row the cursor returned.
ParseOccupied(rows) == {ParseGridPosition(rows[i].GridPosition) : i \in DOMAIN rows}

\* The coordinates of the layout's ElementPlacement rows.
occupied_positions(db, pageLayoutId) ==
    ParseOccupied(fetchall({q \in db.ElementPlacement : q.PageLayoutId = pageLayoutId}))

\* [pos for pos in all_positions if pos not in occupied_positions]
FilterAvailable(occupied, ncols, nrows) ==
    LET Free(pos) == pos \notin occupied
    IN SelectSeq(all_positions(ncols, nrows), Free)

\* find_available_positions: opened on its own connection, so db is the
\* committed database.
find_available_positions(db, pageLayoutId, ncols, nrows) ==
    FilterAvailable(occupied_positions(db, pageLayoutId), ncols, nrows)

\* Mutant: the last assigned id is returned, not the one after it.
get_next_id_NoIncrement(db, table_name) ==
    LET result == {r \in db.sqlite_sequence : r.name = table_name} IN
    IF result = {} THEN 1 ELSE (CHOOSE r \in result : TRUE).seq

\* get_next_id: sqlite_sequence's seq for the table plus one, 1 without a row.
get_next_id(db, table_name) ==
    LET result == {r \in db.sqlite_sequence : r.name = table_name} IN
    IF result = {} THEN 1 ELSE (CHOOSE r \in result : TRUE).seq + 1

\* get_color_for_slide, as the palette index.
get_color_for_slide(slide_num) == (slide_num - 1) % NumSlideColors

(* -------------------- Content Insertion Transaction ------------------- *)

\* add_button: one Button row with the given Id (the label and the link to
\* its ElementReference are the columns the other tables and queries read).
add_button(tx, buttonId, refId, label, fail) ==
    InsertRows(tx, "Button",
               {[Id |-> buttonId, Label |-> label, ElementReferenceId |-> refId]}, fail)

\* add_command_speak_message: the Id is left to SQLite.
add_command_speak_message(tx, buttonId, fail) ==
    InsertRows(tx, "CommandSequence",
               {[Id |-> AutoId(tx.db, "CommandSequence"), ButtonId |-> buttonId]}, fail)

\* Mutant: the statement runs but the ElementReference row is not written.
add_element_reference_Skipped(tx, refId, pageId, color, fail) ==
    Execute(tx, fail, FALSE, tx.db)

add_element_reference(tx, refId, pageId, color, fail) ==
    InsertRows(tx, "ElementReference",
               {[Id |-> refId, PageId |-> pageId, BackgroundColor |-> color]}, fail)

\* add_button_placement: the Id is left to SQLite.
add_button_placement(tx, pageLayoutId, elementRefId, position, fail) ==
    InsertRows(tx, "ElementPlacement",
               {[Id |-> AutoId(tx.db, "ElementPlacement"),
                 GridPosition |-> FormatGridPosition(position[1], position[2]),
                 ElementReferenceId |-> elementRefId,
                 PageLayoutId |-> pageLayoutId]}, fail)

\* Mutant: the selection is ignored.
layouts_to_use_All(layouts, selected_layout_ids) == layouts

\* layouts if selected_layout_ids is None, else those whose id is selected.
layouts_to_use(layouts, selected_layout_ids) ==
    IF ~selected_layout_ids.given THEN layouts
    ELSE LET Selected(l) == l.id \in selected_layout_ids.ids
         IN SelectSeq(layouts, Selected)

\* The capacity scan: the smallest free count and the first layout that has
\* it.  inf stands for float('inf'); limiting_layout is read only when a
\* layout was scanned.
RECURSIVE ScanCapacity(_, _, _, _)
ScanCapacity(db, layouts, k, acc) ==
    IF k > Len(layouts) THEN acc
    ELSE LET l == layouts[k]
             available == Len(find_available_positions(db, l.id, l.ncols, l.nrows))
         IN ScanCapacity(db, layouts, k + 1,
                IF acc.inf \/ available < acc.min_available
                THEN [inf |-> FALSE, min_available |-> available, limiting_layout |-> l.id]
                ELSE acc)

\* Mutant: only the first targeted layout is scanned.
min_available_FirstOnly(db, layouts) ==
    ScanCapacity(db, IF Len(layouts) = 0 THEN layouts ELSE <<layouts[1]>>, 1,
                 [inf |-> TRUE, min_available |-> 0, limiting_layout |-> 0])

min_available(db, layouts) ==
    ScanCapacity(db, layouts, 1, [inf |-> TRUE, min_available |-> 0, limiting_layout |-> 0])

\* if min_available < len(buttons_data)
CapacityShort(cap, required) == ~cap.inf /\ cap.min_available < required

\* Mutant: the shortage is subtracted the wrong way round.
CapacityError_Reversed(cap, required) ==
    [kind |-> "capacity",
     required |-> required,
     available |-> cap.min_available,
     shortage |-> cap.min_available - required,
     layout |-> cap.limiting_layout]

CapacityError(cap, required) ==
    [kind |-> "capacity",
     required |-> required,
     available |-> cap.min_available,
     shortage |-> required - cap.min_available,
     layout |-> cap.limiting_layout]

\* The first loop: Button, CommandSequence and ElementReference of item i.
RECURSIVE AddItems(_, _, _, _, _, _, _)
AddItems(tx, buttons_data, i, buttonId, refId, pageId, fail) ==
    IF i > Len(buttons_data) THEN tx
    ELSE LET current_buttonId == buttonId + (i - 1)
             current_refId == refId + (i - 1)
             color == get_color_for_slide(buttons_data[i].slide_num)
             t1 == add_button(tx, current_buttonId, current_refId, buttons_data[i].label, fail)
             t2 == add_command_speak_message(t1, current_buttonId, fail)
             t3 == add_element_reference(t2, current_refId, pageId, color, fail)
         IN AddItems(t3, buttons_data, i + 1, buttonId, refId, pageId, fail)

\* The inner placement loop: item i gets available_positions[i].
RECURSIVE PlaceItems(_, _, _, _, _, _, _)
PlaceItems(tx, n, i, layoutId, refId, available_positions, fail) ==
    IF i > n \/ tx.err.kind # "none" THEN tx
    ELSE IF i > Len(available_positions)
    THEN [tx EXCEPT !.err = [kind |-> "index"]]
    ELSE PlaceItems(
             add_button_placement(tx, layoutId, refId + (i - 1), available_positions[i], fail),
             n, i + 1, layoutId, refId, available_positions, fail)

\* Mutant: the placement loop ends after the first targeted layout.
PlaceLayouts_FirstOnly(tx, committed, layouts, m, n, refId, fail) ==
    IF m > Len(layouts) \/ tx.err.kind # "none" THEN tx
    ELSE PlaceItems(tx, n, 1, layouts[m].id, refId,
                    find_available_positions(committed, layouts[m].id,
                                             layouts[m].ncols, layouts[m].nrows), fail)

\* The second loop, over the targeted layouts; committed is what the
\* allocator's own connection reads.
RECURSIVE PlaceLayouts(_, _, _, _, _, _, _)
PlaceLayouts(tx, committed, layouts, m, n, refId, fail) ==
    IF m > Len(layouts) \/ tx.err.kind # "none" THEN tx
    ELSE LET l == layouts[m]
             available_positions == find_available_positions(committed, l.id, l.ncols, l.nrows)
         IN PlaceLayouts(PlaceItems(tx, n, 1, l.id, refId, available_positions, fail),
                         committed, layouts, m + 1, n, refId, fail)

\* Mutant: the except branch does not roll back; what the transaction wrote
\* reaches the file.
rollback_Skipped(committed, tx) == tx.db

\* conn.rollback(): the file keeps what was committed before the call.
rollback(committed, tx) == committed

\* conn.commit().
commit(committed, tx) == tx.db

\* Mutant: the except branch raises a new error that wraps the caught one.
reraise_Wrapped(e) == [kind |-> "transaction", cause |-> e]

\* raise e: the caught exception object itself leaves the call.
reraise(e) == e

\* add_buttons_from_pptx: the database after the call, the count returned and
\* the exception raised.  Every exception of the try block is caught, the
\* transaction is rolled back, and then the exception is raised again.
add_buttons_from_pptx(db, buttons_data, selected_layout_ids, fail) ==
    IF Len(buttons_data) = 0
    THEN [db |-> db, returned |-> 0, err |-> NoError]
    ELSE
    LET details == get_page_layout_details(db)
        tx0 == Begin(db)
    IN  IF details.err.kind # "none"
        THEN [db |-> rollback(db, tx0), returned |-> 0, err |-> reraise(details.err)]
        ELSE
        LET targets == layouts_to_use(details.layouts, selected_layout_ids)
            cap == min_available(db, targets)
        IN  IF CapacityShort(cap, Len(buttons_data))
            THEN [db |-> rollback(db, tx0), returned |-> 0,
                  err |-> reraise(CapacityError(cap, Len(buttons_data)))]
            ELSE
            LET buttonId == get_next_id(db, "Button")
                refId == get_next_id(db, "ElementReference")
                tx1 == AddItems(tx0, buttons_data, 1, buttonId, refId, details.pageId, fail)
                tx2 == PlaceLayouts(tx1, db, targets, 1, Len(buttons_data), refId, fail)
            IN  IF tx2.err.kind = "none"
                THEN [db |-> commit(db, tx2), returned |-> Len(buttons_data), err |-> NoError]
                ELSE [db |-> rollback(db, tx2), returned |-> 0, err |-> reraise(tx2.err)]

(* ----------------------- Reference-Board Migration -------------------- *)

\* UPDATE ElementReference SET PageId = ?
UpdateReferencePageIds(tx, pageId, fail) ==
    Execute(tx, fail, FALSE,
            [tx.db EXCEPT !.ElementReference = {[r EXCEPT !.PageId = pageId] : r \in @}])

\* Mutant: the copied row stays after it was duplicated.
DeletePlacement_Skipped(tx, id, fail) == Execute(tx, fail, FALSE, tx.db)

\* DELETE FROM ElementPlacement WHERE Id = ?
DeletePlacement(tx, id, fail) ==
    Execute(tx, fail, FALSE,
            [tx.db EXCEPT !.ElementPlacement = {p \in @ : p.Id # id}])

\* The home row once more for each layout: PageLayoutId rewritten, Id left to
\* SQLite.
RECURSIVE DuplicateForLayouts(_, _, _, _, _)
DuplicateForLayouts(tx, existing_row, layouts, m, fail) ==
    IF m > Len(layouts) \/ tx.err.kind # "none" THEN tx
    ELSE DuplicateForLayouts(
             InsertRows(tx, "ElementPlacement",
                        {[existing_row EXCEPT
                            !.PageLayoutId = layouts[m].id,
                            !.Id = AutoId(tx.db, "ElementPlacement")]}, fail),
             existing_row, layouts, m + 1, fail)

\* Lines 427-457: the placement of the Button labelled 'Home' goes to every
\* layout of the Board, and the copied row is deleted.
DuplicateHomePlacement(tx, layouts, fail) ==
    IF tx.err.kind # "none" THEN tx
    ELSE
    LET home == fetchall({b \in tx.db.Button : b.Label = "Home"}) IN
    IF Len(home) = 0 THEN tx
    ELSE
    LET home_ref_id == home[1].ElementReferenceId
        existing == fetchall({p \in tx.db.ElementPlacement :
                                 p.ElementReferenceId = home_ref_id})
    IN  IF Len(existing) = 0 THEN tx
        ELSE DeletePlacement(DuplicateForLayouts(tx, existing[1], layouts, 1, fail),
                             existing[1].Id, fail)

\* conn_pageset.close() with no commit before it: the open transaction is
\* dropped.
close_uncommitted(committed, tx) == committed

\* Mutant: the guard looks for the home cell, not for any Button.
ButtonsExist_HomeOnly(db) == \E b \in db.Button : b.Label = "Home"

\* Mutant: the count is compared with 1.
ButtonsExist_OffByOne(db) == Cardinality(db.Button) > 1

\* Mutant: only the Buttons of the Board's own page are counted.
ButtonsExist_BoardOnly(db) ==
    \E b \in db.Button : \E r \in db.ElementReference :
        r.Id = b.ElementReferenceId /\ r.PageId = get_page_layout_details(db).pageId

\* SELECT COUNT(*) FROM Button is above 0.
ButtonsExist(db) == Cardinality(db.Button) > 0

\* add_home_button: the database after the call, what the call did and the
\* exception raised.  An exception leaves through finally: the connection is
\* closed without a commit.
add_home_button(db, ref_db, fail) ==
    LET details == get_page_layout_details(db) IN
    IF details.err.kind # "none"
    THEN [db |-> db, outcome |-> "raised", err |-> details.err]
    ELSE IF ButtonsExist(db)
    THEN [db |-> db, outcome |-> "skipped", err |-> NoError]
    ELSE
    LET t1 == InsertRows(Begin(db), "Button", ref_db.Button, fail)
        t2 == InsertRows(t1, "ElementReference", ref_db.ElementReference, fail)
        t3 == InsertRows(t2, "ElementPlacement", ref_db.ElementPlacement, fail)
        t4 == InsertRows(t3, "CommandSequence", ref_db.CommandSequence, fail)
        t5 == UpdateReferencePageIds(t4, details.pageId, fail)
        t6 == DuplicateHomePlacement(t5, details.layouts, fail)
    IN  IF t6.err.kind = "none"
        THEN [db |-> commit(db, t6), outcome |-> "migrated", err |-> NoError]
        ELSE [db |-> close_uncommitted(db, t6), outcome |-> "raised", err |-> t6.err]

(* --------------------------- initial stores --------------------------- *)

\* The pages of a pageset: the Dashboard (1), the Message Bar (2) and the
\* Board (3).  Layout 1 is the Dashboard's.
StandardPages ==
    {[Id |-> 1, Title |-> "Dashboard"],
     [Id |-> 2, Title |-> "Message Bar"],
     [Id |-> 3, Title |-> "Board"]}

\* The Board's layouts get the ids 2, 3, ... after the Dashboard's layout.
BoardLayoutRows(shapes) ==
    {[Id |-> 1, PageId |-> 1, PageLayoutSetting |-> <<2, 2, 0>>]}
    \cup {[Id |-> i + 1, PageId |-> 3,
           PageLayoutSetting |-> <<shapes[i][1], shapes[i][2], 0>>] : i \in DOMAIN shapes}

SingleShapes == {<<(<<c, r>>)>> : c \in 1..MaxCols, r \in 1..MaxRows}

PairShapes ==
    {<< <<2, 2>>, <<1, 2>> >>,
     << <<1, 2>>, <<2, 2>> >>,
     << <<1, 2>>, <<1, 2>> >>,
     << <<2, 1>>, <<2, 2>> >>}

EmptyTables ==
    [Button |-> {}, ElementReference |-> {}, ElementPlacement |-> {},
     CommandSequence |-> {}, sqlite_sequence |-> {}]

SequenceRows(tables) ==
    {[name |-> t, seq |-> MaxId(tables[t])] :
        t \in {u \in {"Button", "ElementReference", "ElementPlacement", "CommandSequence"} :
                 tables[u] # {}}}

WithSequence(tables) == [tables EXCEPT !.sqlite_sequence = SequenceRows(tables)]

\* Content a pageset may hold before the program touches it.
Contents(shapes) ==
    {   \* a blank pageset
        EmptyTables,
        \* a Button on the Dashboard page only
        WithSequence([EmptyTables EXCEPT
            !.Button = {[Id |-> 2, Label |-> "Old", ElementReferenceId |-> 2]},
            !.ElementReference = {[Id |-> 2, PageId |-> 1, BackgroundColor |-> 0]},
            !.ElementPlacement = {[Id |-> 2, GridPosition |-> <<0, 0>>,
                                   ElementReferenceId |-> 2, PageLayoutId |-> 1]},
            !.CommandSequence = {[Id |-> 2, ButtonId |-> 2]}]),
        \* a Button on the Board, placed at the first cell of every layout
        WithSequence([EmptyTables EXCEPT
            !.Button = {[Id |-> 1, Label |-> "Old", ElementReferenceId |-> 1]},
            !.ElementReference = {[Id |-> 1, PageId |-> 3, BackgroundColor |-> 0]},
            !.ElementPlacement = {[Id |-> i, GridPosition |-> <<0, 0>>,
                                   ElementReferenceId |-> 1, PageLayoutId |-> i + 1]
                                     : i \in DOMAIN shapes},
            !.CommandSequence = {[Id |-> 1, ButtonId |-> 1]}]),
        \* an element without a Button on the Dashboard page
        WithSequence([EmptyTables EXCEPT
            !.ElementReference = {[Id |-> 2, PageId |-> 1, BackgroundColor |-> 0]},
            !.ElementPlacement = {[Id |-> 2, GridPosition |-> <<0, 0>>,
                                   ElementReferenceId |-> 2, PageLayoutId |-> 1]}]),
        \* an element without a Button on the first cell of the Board's first layout
        WithSequence([EmptyTables EXCEPT
            !.ElementReference = {[Id |-> 1, PageId |-> 3, BackgroundColor |-> 0]},
            !.ElementPlacement = {[Id |-> 2, GridPosition |-> <<0, 0>>,
                                   ElementReferenceId |-> 1, PageLayoutId |-> 2]}]),
        \* the same element under an id the template does not use
        WithSequence([EmptyTables EXCEPT
            !.ElementReference = {[Id |-> 2, PageId |-> 3, BackgroundColor |-> 0]},
            !.ElementPlacement = {[Id |-> 2, GridPosition |-> <<0, 0>>,
                                   ElementReferenceId |-> 2, PageLayoutId |-> 2]}])
    }

Pageset(pages, shapes, content) ==
    [Page |-> pages,
     PageLayout |-> BoardLayoutRows(shapes),
     Button |-> content.Button,
     ElementReference |-> content.ElementReference,
     ElementPlacement |-> content.ElementPlacement,
     CommandSequence |-> content.CommandSequence,
     sqlite_sequence |-> content.sqlite_sequence]

InitialStores ==
    {Pageset(StandardPages, shapes, content) :
        <<shapes, content>> \in
            {<<sh, co>> \in (SingleShapes \cup PairShapes) \X
                 UNION {Contents(sh) : sh \in SingleShapes \cup PairShapes} :
               co \in Contents(sh)}}
    \cup {Pageset({p \in StandardPages : p.Title \in rows_to_ignore}, << <<2, 2>> >>, EmptyTables),
          Pageset(StandardPages \cup {[Id |-> 4, Title |-> "Extra"]}, << <<2, 2>> >>, EmptyTables)}

\* static/home_button_ref.spb: one Button labelled 'Home', its
\* ElementReference, one ElementPlacement and its CommandSequence.
HomeTemplate(position) ==
    [Button |-> {[Id |-> 1, Label |-> "Home", ElementReferenceId |-> 1]},
     ElementReference |-> {[Id |-> 1, PageId |-> 7, BackgroundColor |-> 0]},
     ElementPlacement |-> {[Id |-> 1, GridPosition |-> position,
                            ElementReferenceId |-> 1, PageLayoutId |-> 7]},
     CommandSequence |-> {[Id |-> 1, ButtonId |-> 1]}]

Templates == {HomeTemplate(<<0, 0>>), HomeTemplate(<<1, 1>>)}

(* ------------------------------ inputs -------------------------------- *)

\* buttons_data: n (label, message, slide_num) tuples.
ButtonsData(n) == [i \in 1..n |-> [label |-> "Item", slide_num |-> i]]

\* selected_layout_ids=None
AllLayouts == [given |-> FALSE, ids |-> {}]

Selections == {AllLayouts, [given |-> TRUE, ids |-> {2}], [given |-> TRUE, ids |-> {3}]}

\* The write statement that fails is among the first MaxFail of a call.
MaxFail == 5

\* 0: no write statement fails.
FailPoints == 0..MaxFail

(* ------------------------------ the calls ----------------------------- *)

\* No add_buttons_from_pptx call is between its reads and its writes.
Idle == [phase |-> "idle"]

\* A conversion has not created its working copy yet: pc is the step the
\* caller is at, temp tells whether the temporary file exists.
NotStarted == [pc |-> "create_temp_file", temp |-> FALSE]

Init ==
    /\ store \in InitialStores
    /\ ref \in Templates
    /\ prev = store
    /\ last = [op |-> "none", err |-> NoError]
    /\ pending = Idle
    /\ caller = NotStarted

\* The callers run their steps inside one try block: an exception ends the
\* conversion, and nothing more is done to that working copy.
Running == last.err.kind = "none"

\* add_home_button(temp_db_path, reference_db)
Home ==
    \E fail \in FailPoints :
        LET r == add_home_button(store, ref, fail) IN
        /\ Running
        /\ store' = r.db
        /\ prev' = store
        /\ last' = [op |-> "home", outcome |-> r.outcome, err |-> r.err,
                    fail |-> IF r.err.kind = "io" THEN fail ELSE 0]
        /\ UNCHANGED <<ref, pending, caller>>

\* add_buttons_from_pptx(temp_db_path, buttons_data, selected_layout_ids)
Insert ==
    \E n \in 0..MaxItems, sel \in Selections, fail \in FailPoints :
        LET r == add_buttons_from_pptx(store, ButtonsData(n), sel, fail) IN
        /\ Running
        /\ Cardinality(store.Button) + n <= MaxButtons
        /\ store' = r.db
        /\ prev' = store
        /\ last' = [op |-> "insert", n |-> n, sel |-> sel, returned |-> r.returned,
                    err |-> r.err, fail |-> IF r.err.kind = "io" THEN fail ELSE 0]
        /\ UNCHANGED <<ref, pending, caller>>

Next == Home \/ Insert

Spec == Init /\ [][Next]_vars

(* ----------------- calls of two processes on one file ----------------- *)

\* The free list of every targeted layout, as one allocator call per layout
\* reads it from the committed database.
FreeLists(db, layouts) ==
    [m \in 1..Len(layouts) |->
        find_available_positions(db, layouts[m].id, layouts[m].ncols, layouts[m].nrows)]

\* Lines 486-513 of a call: the Board is resolved and the capacity of the
\* targeted layouts is counted, each count on a connection of its own that
\* is closed again.  No statement has written yet, so the call's connection
\* has no transaction open and holds no lock on the file.
Count ==
    \E n \in 1..MaxItems, sel \in Selections :
        LET details == get_page_layout_details(store)
            targets == layouts_to_use(details.layouts, sel)
            cap == min_available(store, targets)
            failed == IF details.err.kind # "none" THEN reraise(details.err)
                      ELSE IF CapacityShort(cap, n) THEN reraise(CapacityError(cap, n))
                      ELSE NoError
        IN  /\ Running
            /\ pending = Idle
            /\ Cardinality(store.Button) + n <= MaxButtons
            /\ IF failed.kind # "none"
               THEN /\ pending' = Idle
                    /\ last' = [op |-> "insert", n |-> n, sel |-> sel, returned |-> 0,
                                err |-> failed, fail |-> 0,
                                counted |-> <<>>, used |-> <<>>]
               ELSE /\ pending' = [phase |-> "counted", n |-> n, sel |-> sel,
                                   pageId |-> details.pageId, targets |-> targets,
                                   counted |-> FreeLists(store, targets),
                                   buttonId |-> 0, refId |-> 0, alone |-> TRUE]
                    /\ last' = last
            /\ prev' = store
            /\ UNCHANGED <<store, ref, caller>>

\* Lines 516-517: the starting ids are read from sqlite_sequence, still
\* outside any transaction.
ReadIds ==
    /\ pending.phase = "counted"
    /\ pending' = [pending EXCEPT !.phase = "ids",
                                  !.buttonId = get_next_id(store, "Button"),
                                  !.refId = get_next_id(store, "ElementReference")]
    /\ UNCHANGED <<store, ref, prev, last, caller>>

\* Another process commits a call of its own on the same file while this
\* call has not written yet: a batch of one item, or the migration.
OtherCommit ==
    \E other \in {"insert", "home"} :
        /\ pending.phase \in {"counted", "ids"}
        /\ pending.alone
        /\ store' = IF other = "insert"
                    THEN add_buttons_from_pptx(store, ButtonsData(1), AllLayouts, 0).db
                    ELSE add_home_button(store, ref, 0).db
        /\ store' # store
        /\ pending' = [pending EXCEPT !.alone = FALSE]
        /\ UNCHANGED <<ref, prev, last, caller>>

\* Lines 519-555: the first INSERT opens the transaction and takes the write
\* lock, the placement loop reads the free lists again, and the call commits
\* or rolls back.
Write ==
    /\ pending.phase = "ids"
    /\ LET buttons_data == ButtonsData(pending.n)
           tx1 == AddItems(Begin(store), buttons_data, 1, pending.buttonId,
                           pending.refId, pending.pageId, 0)
           tx2 == PlaceLayouts(tx1, store, pending.targets, 1, pending.n, pending.refId, 0)
       IN  /\ store' = IF tx2.err.kind = "none" THEN commit(store, tx2)
                                                ELSE rollback(store, tx2)
           /\ last' = [op |-> "insert", n |-> pending.n, sel |-> pending.sel,
                       returned |-> IF tx2.err.kind = "none" THEN pending.n ELSE 0,
                       err |-> IF tx2.err.kind = "none" THEN NoError ELSE reraise(tx2.err),
                       fail |-> 0,
                       counted |-> pending.counted,
                       used |-> FreeLists(store, pending.targets)]
    /\ pending' = Idle
    /\ UNCHANGED <<ref, prev, caller>>

NextShared == Count \/ ReadIds \/ OtherCommit \/ Write

SpecShared == Init /\ [][NextShared]_vars

(* --------------------------- Capacity report -------------------------- *)

\* SELECT COUNT(*) FROM ElementPlacement WHERE PageLayoutId = ?
CountPlacements(db, layoutId) ==
    Cardinality({p \in db.ElementPlacement : p.PageLayoutId = layoutId})

\* Mutant: occupied_cells counts the coordinates, not the rows.
LayoutInfo_DistinctCoordinates(db, l) ==
    [id |-> l.id,
     ncols |-> l.ncols,
     nrows |-> l.nrows,
     cells_per_page |-> l.ncols * l.nrows,
     available_cells |-> Len(find_available_positions(db, l.id, l.ncols, l.nrows)),
     occupied_cells |-> Cardinality(occupied_positions(db, l.id))]

\* The layout_info entry of one layout.
LayoutInfo(db, l) ==
    [id |-> l.id,
     ncols |-> l.ncols,
     nrows |-> l.nrows,
     cells_per_page |-> l.ncols * l.nrows,
     available_cells |-> Len(find_available_positions(db, l.id, l.ncols, l.nrows)),
     occupied_cells |-> CountPlacements(db, l.id)]

\* The loop's running values after the first k layouts: the least
\* available count, the first index (from 0) that has it, and the largest
\* occupied count.
RECURSIVE ScanReport(_, _, _)
ScanReport(info, k, acc) ==
    IF k > Len(info) THEN acc
    ELSE ScanReport(info, k + 1,
            [inf |-> FALSE,
             min_available |-> IF acc.inf \/ info[k].available_cells < acc.min_available
                               THEN info[k].available_cells ELSE acc.min_available,
             limiting_layout_index |->
                               IF acc.inf \/ info[k].available_cells < acc.min_available
                               THEN k - 1 ELSE acc.limiting_layout_index,
             max_occupied |-> Max(acc.max_occupied, info[k].occupied_cells)])

\* get_grid_capacity: the report, or the exception raised (the ValueError
\* of get_page_layout_details, or the IndexError of layouts[0] for a Board
\* without layouts).
get_grid_capacity(db) ==
    LET details == get_page_layout_details(db) IN
    IF details.err.kind # "none" THEN [err |-> details.err]
    ELSE IF Len(details.layouts) = 0 THEN [err |-> [kind |-> "index"]]
    ELSE
    LET first_layout == details.layouts[1]
        layout_info == [k \in 1..Len(details.layouts) |-> LayoutInfo(db, details.layouts[k])]
        scan == ScanReport(layout_info, 1,
                           [inf |-> TRUE, min_available |-> 0,
                            limiting_layout_index |-> 0, max_occupied |-> 0])
    IN [err |-> NoError,
        ncols |-> first_layout.ncols,
        nrows |-> first_layout.nrows,
        total_pages |-> total_pages,
        reserved_cells |-> reserved_cells,
        occupied_cells |-> scan.max_occupied,
        available_cells |-> scan.min_available,
        cells_per_page |-> first_layout.ncols * first_layout.nrows,
        layouts |-> layout_info,
        limiting_layout_index |-> scan.limiting_layout_index]

\* get_grid_capacity(db_path): read-only.
Report ==
    LET r == get_grid_capacity(store) IN
    /\ Running
    /\ last.op # "capacity"
    /\ last' = [op |-> "capacity", err |-> r.err, report |-> r]
    /\ prev' = store
    /\ UNCHANGED <<store, ref, pending, caller>>

\* The report changes nothing, so the calls that follow it are the calls
\* that follow the state it was asked in; they are left out after a report.
NextReport ==
    \/ (last.op # "capacity" /\ Home)
    \/ (last.op # "capacity" /\ Insert)
    \/ Report

SpecReport == Init /\ [][NextReport]_vars

(* ------------------- the callers' conversion sequence ----------------- *)

\* update_page_title: the Title of the first Page row that is neither the
\* Dashboard nor the Message Bar becomes the new name.
update_page_title(db, new_name) ==
    LET page_row == fetchall({p \in db.Page : p.Title \notin rows_to_ignore}) IN
    IF Len(page_row) = 0 THEN db
    ELSE [db EXCEPT !.Page = {IF p.Id = page_row[1].Id THEN [p EXCEPT !.Title = new_name]
                                                       ELSE p : p \in @}]

\* An exception in a step: the Streamlit handler reports it in its except
\* branch, the test script ends with it.  Neither touches the temporary file.
Raised == [caller EXCEPT !.pc = "failed"]

\* Step 2: create_temp_file writes the uploaded pageset to a new file.
CreateTempFile ==
    /\ caller.pc = "create_temp_file"
    /\ caller' = [pc |-> "add_home_button", temp |-> TRUE]
    /\ UNCHANGED <<store, ref, prev, last, pending>>

\* Step 3: add_home_button(temp_db_path, reference_db).
StepHome ==
    \E fail \in FailPoints :
        LET r == add_home_button(store, ref, fail) IN
        /\ caller.pc = "add_home_button"
        /\ store' = r.db
        /\ prev' = store
        /\ last' = [op |-> "home", outcome |-> r.outcome, err |-> r.err,
                    fail |-> IF r.err.kind = "io" THEN fail ELSE 0]
        /\ caller' = IF r.err.kind = "none"
                     THEN [caller EXCEPT !.pc = "add_buttons_from_pptx"] ELSE Raised
        /\ UNCHANGED <<ref, pending>>

\* Step 4: add_buttons_from_pptx(temp_db_path, buttons_data).
StepInsert ==
    \E n \in 0..MaxItems, fail \in FailPoints :
        LET r == add_buttons_from_pptx(store, ButtonsData(n), AllLayouts, fail) IN
        /\ caller.pc = "add_buttons_from_pptx"
        /\ store' = r.db
        /\ prev' = store
        /\ last' = [op |-> "insert", n |-> n, sel |-> AllLayouts, returned |-> r.returned,
                    err |-> r.err, fail |-> IF r.err.kind = "io" THEN fail ELSE 0]
        /\ caller' = IF r.err.kind = "none"
                     THEN [caller EXCEPT !.pc = "update_page_title"] ELSE Raised
        /\ UNCHANGED <<ref, pending>>

\* Step 5: update_page_title, which the Streamlit handler runs only when a
\* title was asked for; the statement may raise.
StepTitle ==
    \E outcome \in {"updated", "not asked", "raised"} :
        /\ caller.pc = "update_page_title"
        /\ store' = IF outcome = "updated" THEN update_page_title(store, "Pageset")
                    ELSE store
        /\ caller' = IF outcome = "raised" THEN Raised
                     ELSE [caller EXCEPT !.pc = "update_timestamps"]
        /\ UNCHANGED <<ref, prev, last, pending>>

\* Step 6: update_timestamps writes TimeStamp columns only; it may raise.
StepTimestamps ==
    \E raised \in BOOLEAN :
        /\ caller.pc = "update_timestamps"
        /\ caller' = IF raised THEN Raised ELSE [caller EXCEPT !.pc = "read"]
        /\ UNCHANGED <<store, ref, prev, last, pending>>

\* Step 7: the file is read back for the download or the output file; the
\* read may raise.
StepRead ==
    \E raised \in BOOLEAN :
        /\ caller.pc = "read"
        /\ caller' = IF raised THEN Raised ELSE [caller EXCEPT !.pc = "os.remove"]
        /\ UNCHANGED <<store, ref, prev, last, pending>>

\* Clean up temp file: os.remove(temp_db_path), the last statement of the
\* sequence.
StepRemove ==
    /\ caller.pc = "os.remove"
    /\ caller' = [pc |-> "done", temp |-> FALSE]
    /\ UNCHANGED <<store, ref, prev, last, pending>>

NextCaller ==
    \/ CreateTempFile
    \/ StepHome
    \/ StepInsert
    \/ StepTitle
    \/ StepTimestamps
    \/ StepRead
    \/ StepRemove

SpecCaller == Init /\ [][NextCaller]_vars

(* ---------------------- vocabulary of the properties ------------------ *)

ContentTables == {"Button", "ElementReference", "CommandSequence", "ElementPlacement"}

SameRows(a, b) == \A t \in ContentTables : a[t] = b[t]

InsertCalled == last.op = "insert" /\ last.n > 0

InsertSucceeded == InsertCalled /\ last.err.kind = "none"

\* The layouts a call with this selection targets, when the Board resolves.
Targets(db, sel) == Range(layouts_to_use(get_page_layout_details(db).layouts, sel))

FreeCount(db, l) == Len(find_available_positions(db, l.id, l.ncols, l.nrows))

NewRows(t) == store[t] \ prev[t]

Ids(rows) == {r.Id : r \in rows}

RowMajorBefore(p, q) == p[2] < q[2] \/ (p[2] = q[2] /\ p[1] < q[1])

LayoutsOf(db) ==
    {[id |-> l.Id, ncols |-> l.PageLayoutSetting[1], nrows |-> l.PageLayoutSetting[2]] :
        l \in db.PageLayout}

(* ------------------------------- C1 ----------------------------------- *)

\* C1: add_buttons_from_pptx is all-or-nothing.  Whatever statement of the
\* call raised, on whichever item or targeted layout, the Button,
\* ElementReference, CommandSequence and ElementPlacement tables hold after
\* the call exactly the rows they held before it.
C1_AllOrNothing ==
    (InsertCalled /\ last.err.kind # "none") => SameRows(store, prev)

\* A call whose write failed while it placed into the second targeted
\* layout, after the items' rows and the first layout's placements.
C1_Witness ==
    /\ InsertCalled
    /\ last.err.kind = "io"
    /\ last.fail > 3 * last.n + last.n
    /\ Cardinality(Targets(prev, last.sel)) >= 2

(* ------------------------------- C2 ----------------------------------- *)

\* C2: the capacity check is conservative and precedes every write.  If any
\* targeted layout has fewer free coordinates than there are items, the
\* call fails with the capacity error and no table of the store changes,
\* also not for the targeted layouts that had room.
C2_CapacityFailsClosed ==
    (/\ InsertCalled
     /\ get_page_layout_details(prev).err.kind = "none"
     /\ \E l \in Targets(prev, last.sel) : FreeCount(prev, l) < last.n)
    => (last.err.kind = "capacity" /\ store = prev)

\* A capacity failure of a call that also targeted a layout with room.
C2_Witness ==
    /\ InsertCalled
    /\ last.err.kind = "capacity"
    /\ \E l \in Targets(prev, last.sel) : FreeCount(prev, l) >= last.n

(* ------------------------------- C3 ----------------------------------- *)

\* C3: the capacity error carries required = the number of items, available
\* = the least free count over the targeted layouts, shortage = required -
\* available, and the id of a targeted layout whose free count is that least
\* count.
C3_CapacityErrorFields ==
    (InsertCalled /\ last.err.kind = "capacity")
    => LET targets == Targets(prev, last.sel) IN
       /\ last.err.required = last.n
       /\ \A l \in targets : last.err.available <= FreeCount(prev, l)
       /\ \E l \in targets : /\ l.id = last.err.layout
                             /\ FreeCount(prev, l) = last.err.available
       /\ last.err.shortage = last.n - last.err.available
       /\ last.err.shortage > 0

\* Two targeted layouts with different free counts, the second the limiting
\* one.
C3_Witness ==
    /\ InsertCalled
    /\ last.err.kind = "capacity"
    /\ \E l1 \in Targets(prev, last.sel) : \E l2 \in Targets(prev, last.sel) :
          /\ l1.id < l2.id
          /\ FreeCount(prev, l2) < FreeCount(prev, l1)
          /\ last.err.layout = l2.id

(* ------------------------------- C4 ----------------------------------- *)

ExcludedCount(l) ==
    Len(CandidatePositions(l.ncols, l.nrows)) - Len(all_positions(l.ncols, l.nrows))

HasNoPlacement(db, l) == \A p \in db.ElementPlacement : p.PageLayoutId # l.id

ExpectedFree(db, l) ==
    {pos \in (0..(l.ncols - 1)) \X (0..(l.nrows * 10 - 1)) :
        /\ ~(pos[1] = l.ncols - 1 /\ pos[2] % l.nrows = l.nrows - 1)
        /\ ~(pos[1] = l.ncols - 1 /\ pos[2] % l.nrows = 0 /\ pos[2] # 0)
        /\ \A p \in db.ElementPlacement :
              p.PageLayoutId = l.id => p.GridPosition # <<pos[1], pos[2]>>}

\* C5: the free list of a layout is exactly its non-reserved candidates
\* that no ElementPlacement of the layout holds, in row-major order: every
\* entry is followed by one of a higher row, or of the same row and a higher
\* column.
C5_FreeListRowMajor ==
    \A l \in LayoutsOf(store) :
        LET free == find_available_positions(store, l.id, l.ncols, l.nrows) IN
        /\ Range(free) = ExpectedFree(store, l)
        /\ \A i \in 1..(Len(free) - 1) : RowMajorBefore(free[i], free[i + 1])

\* After a batch went into a layout of two columns that had its first cell
\* taken: the list has skipped taken cells and still spans rows and columns.
C5_Witness ==
    /\ InsertSucceeded
    /\ \E l \in Targets(prev, last.sel) :
          /\ l.ncols >= 2
          /\ \E p \in prev.ElementPlacement :
                p.PageLayoutId = l.id /\ p.GridPosition = <<0, 0>>
          /\ \E p \in NewRows("ElementPlacement") :
                p.PageLayoutId = l.id /\ p.GridPosition = <<1, 0>>
          /\ FreeCount(store, l) >= 2

(* ------------------------------- C6 ----------------------------------- *)

\* C6: in a successful batch item i (from 0) gets the Button id
\* buttonId0 + i and the ElementReference id refId0 + i, with both starts
\* read once from sqlite_sequence before the first write; the ids are
\* contiguous, none is the id of a row the table held before the batch, and
\* no batch fails on a taken id, whatever migration and batches went before.
C6_BatchIds ==
    /\ last.op = "insert" => last.err.kind # "integrity"
    /\ InsertSucceeded =>
          LET buttonId0 == SequenceOf(prev, "Button") + 1
              refId0 == SequenceOf(prev, "ElementReference") + 1
              batch == 0..(last.n - 1)
          IN /\ NewRows("Button") =
                    {[Id |-> buttonId0 + i, Label |-> "Item",
                      ElementReferenceId |-> refId0 + i] : i \in batch}
             /\ Ids(NewRows("ElementReference")) = {refId0 + i : i \in batch}
             /\ Ids(NewRows("Button")) \cap Ids(prev.Button) = {}
             /\ Ids(NewRows("ElementReference")) \cap Ids(prev.ElementReference) = {}
             /\ Cardinality(store.Button) = Cardinality(Ids(store.Button))
             /\ Cardinality(store.ElementReference) = Cardinality(Ids(store.ElementReference))

\* A batch of two items into a store that held an ElementReference row.
C6_Witness ==
    /\ InsertSucceeded
    /\ last.n >= 2
    /\ prev.ElementReference # {}

(* ------------------------------- C7 ----------------------------------- *)

\* C7: a successful batch of n items into a non-empty set of targeted
\* layouts returns n, adds n Buttons that reference n distinct new
\* ElementReferences, adds for every new ElementReference exactly one
\* ElementPlacement in every targeted layout, and lowers the free count of
\* every targeted layout by n.
C7_SuccessfulBatch ==
    (InsertSucceeded /\ Targets(prev, last.sel) # {})
    => LET targets == Targets(prev, last.sel)
           buttons == NewRows("Button")
           refs == NewRows("ElementReference")
           placements == NewRows("ElementPlacement")
       IN /\ last.returned = last.n
          /\ Cardinality(buttons) = last.n
          /\ Cardinality(refs) = last.n
          /\ {b.ElementReferenceId : b \in buttons} = Ids(refs)
          /\ \A r \in refs : \A l \in targets :
                Cardinality({p \in placements :
                                p.ElementReferenceId = r.Id /\ p.PageLayoutId = l.id}) = 1
          /\ Cardinality(placements) = last.n * Cardinality(targets)
          /\ \A l \in targets : FreeCount(store, l) = FreeCount(prev, l) - last.n

\* Two items placed into two targeted layouts.
C7_Witness ==
    /\ InsertSucceeded
    /\ last.n = 2
    /\ Cardinality(Targets(prev, last.sel)) = 2

(* ------------------------------- C8 ----------------------------------- *)

\* The store after add_home_button and then the batch of the last call, both
\* started from the store the last call found.
HomeThenInsert ==
    add_buttons_from_pptx(add_home_button(prev, ref, 0).db,
                          ButtonsData(last.n), last.sel, 0).db

\* The store after the batch of the last call and then add_home_button.
InsertThenHome == add_home_button(store, ref, 0).db

HasHomeButton(db) == \E b \in db.Button : b.Label = "Home"

C9_HomeIdempotent ==
    (last.op = "home" /\ last.err.kind # "io")
    => LET again == add_home_button(store, ref, 0) IN
       /\ again.db = store
       /\ last.err.kind = "none" => (again.outcome = "skipped" /\ again.err.kind = "none")

\* The first run has copied the home cell.
C9_Witness == last.op = "home" /\ last.outcome = "migrated" /\ store # prev

(* ------------------------------- C10 ---------------------------------- *)

\* The Board's own page owns the ElementReference of some Button.
BoardHasButton(db) ==
    \E b \in db.Button : \E r \in db.ElementReference :
        r.Id = b.ElementReferenceId /\ r.PageId = get_page_layout_details(db).pageId

\* The template's Button and CommandSequence rows are in the store, its
\* ElementReference rows are there under their ids, and its placement is
\* there for every layout of the Board.
TemplateCopied(db, template) ==
    /\ template.Button \subseteq db.Button
    /\ template.CommandSequence \subseteq db.CommandSequence
    /\ Ids(template.ElementReference) \subseteq Ids(db.ElementReference)
    /\ \A l \in Range(get_page_layout_details(db).layouts) :
          \E p \in db.ElementPlacement : \E q \in template.ElementPlacement :
              /\ p.PageLayoutId = l.id
              /\ p.ElementReferenceId = q.ElementReferenceId
              /\ p.GridPosition = q.GridPosition

\* C10 as stated: the call leaves the store unchanged if the Board has a
\* Button and copies the template's rows otherwise; Buttons of other pages
\* do not decide.
C10_AsStated ==
    (last.op = "home" /\ last.err.kind = "none")
    => IF BoardHasButton(prev) THEN store = prev ELSE TemplateCopied(store, ref)

\* C10, amended: the call leaves the store unchanged if the store holds any
\* Button row, whichever page owns it; a Button of the Dashboard alone makes
\* it skip the copy.  If the store holds no Button and the call returns, the
\* template's Button, ElementReference and CommandSequence rows are in the
\* target and its placement is there for every layout of the Board.  If the
\* call raises, the store is unchanged.
C10_GuardCountsEveryButton ==
    last.op = "home" =>
        /\ prev.Button # {} => store = prev
        /\ (prev.Button = {} /\ last.err.kind = "none")
              => (last.outcome = "migrated" /\ TemplateCopied(store, ref))
        /\ last.err.kind # "none" => store = prev

\* The call skipped the copy for a Button that is not the Board's.
C10_Witness ==
    /\ last.op = "home"
    /\ last.outcome = "skipped"
    /\ prev.Button # {}
    /\ ~BoardHasButton(prev)

(* ------------------------------- C11 ---------------------------------- *)

\* The ElementPlacement rows of db that belong to the template's home Button.
HomePlacements(db, template) ==
    {p \in db.ElementPlacement :
        \E b \in template.Button :
            b.Label = "Home" /\ p.ElementReferenceId = b.ElementReferenceId}

\* C11: after add_home_button has copied a template of one home Button on
\* one placement into a store whose Board has N >= 1 layouts, exactly N
\* ElementPlacement rows reference the copied home ElementReference, exactly
\* one in each layout of the Board, all at the template's GridPosition, and
\* no ElementPlacement row has the Id of the template's placement.
C11_HomePlacementPerLayout ==
    (last.op = "home" /\ last.outcome = "migrated")
    => LET layouts == Range(get_page_layout_details(store).layouts)
           home == HomePlacements(store, ref)
       IN /\ Cardinality(layouts) >= 1
          /\ Cardinality(home) = Cardinality(layouts)
          /\ \A l \in layouts : Cardinality({p \in home : p.PageLayoutId = l.id}) = 1
          /\ \A p \in home : \A q \in ref.ElementPlacement : p.GridPosition = q.GridPosition
          /\ \A p \in store.ElementPlacement : \A q \in ref.ElementPlacement : p.Id # q.Id

\* The home cell went into a Board of two layouts whose store held a
\* placement already.
C11_Witness ==
    /\ last.op = "home"
    /\ last.outcome = "migrated"
    /\ Len(get_page_layout_details(store).layouts) = 2
    /\ prev.ElementPlacement # {}
    /\ Cardinality(HomePlacements(store, ref)) = 2

(* ------------------------------- C12 ---------------------------------- *)

\* The Page rows that qualify as the Board.
QualifyingPages(db) == {p \in db.Page : p.Title # "Dashboard" /\ p.Title # "Message Bar"}

\* The call failed with the ValueError of get_page_layout_details, wrote
\* nothing, and with several qualifying rows named the title of each.
FailedOnConfiguration ==
    /\ last.err.kind = "config"
    /\ store = prev
    /\ Cardinality(QualifyingPages(prev)) > 1
          => /\ Range(last.err.titles) = {p.Title : p \in QualifyingPages(prev)}
             /\ Len(last.err.titles) = Cardinality(QualifyingPages(prev))

\* C12 as stated: for every items list, add_buttons_from_pptx on a store
\* with no or with several qualifying Page rows fails with the configuration
\* error, writes no row, and lists the titles when there are several.
C12_AsStated ==
    (last.op = "insert" /\ Cardinality(QualifyingPages(prev)) # 1)
    => FailedOnConfiguration

\* C12, amended: for every items list of at least one item,
\* add_buttons_from_pptx on a store with no or with several qualifying Page
\* rows fails with the configuration error, writes no row, and lists the
\* titles when there are several.  With an empty items list the call
\* returns 0 before it resolves the Board: no error, no row written.
C12_ConfigurationError ==
    (last.op = "insert" /\ Cardinality(QualifyingPages(prev)) # 1)
    => IF last.n > 0 THEN FailedOnConfiguration
       ELSE last.err.kind = "none" /\ last.returned = 0 /\ store = prev

\* A batch was refused on a store with two qualifying pages.
C12_Witness ==
    /\ InsertCalled
    /\ last.err.kind = "config"
    /\ Len(last.err.titles) = 2

(* ------------------------------- C13 ---------------------------------- *)

\* What the statements of steps 3-5 raise when the batch of the last call is
\* run on the store it found: the exception of the first statement that
\* fails.
StatementError ==
    LET details == get_page_layout_details(prev)
        buttons_data == ButtonsData(last.n)
        refId == get_next_id(prev, "ElementReference")
        tx1 == AddItems(Begin(prev), buttons_data, 1, get_next_id(prev, "Button"),
                        refId, details.pageId, last.fail)
    IN PlaceLayouts(tx1, prev, layouts_to_use(details.layouts, last.sel), 1,
                    Len(buttons_data), refId, last.fail).err

\* C13: when a statement of steps 3-5 of add_buttons_from_pptx raises, the
\* exception that leaves the call is that statement's exception itself, not
\* one that wraps or replaces it, and when it leaves the call the rollback
\* is done: the store holds the rows it held before the call.
C13_OriginalErrorAfterRollback ==
    (InsertCalled /\ last.err.kind \notin {"none", "config", "capacity"})
    => /\ last.err = StatementError
       /\ last.err.kind \in {"io", "integrity", "index"}
       /\ SameRows(store, prev)

\* The second write statement of a batch failed, after the Button row of the
\* first item was written.
C13_Witness ==
    /\ InsertCalled
    /\ last.err = [kind |-> "io"]
    /\ last.fail = 2
    /\ store = prev

(* ------------------------------- C14 ---------------------------------- *)

\* Every order in which a SELECT without ORDER BY may return the rows.
RECURSIVE Orders(_)
Orders(rows) ==
    IF rows = {} THEN {<<>>}
    ELSE UNION {{<<r>> \o s : s \in Orders(rows \ {r})} : r \in rows}

PlacementsIn(db, l) == {p \in db.ElementPlacement : p.PageLayoutId = l.id}

\* C14: the allocator is deterministic.  Against an unchanged store every
\* call for a layout returns the same ordered list of free coordinates: the
\* list does not depend on the order in which the query returns the layout's
\* ElementPlacement rows, the only input of a call that may differ between
\* two calls.
C14_AllocatorDeterministic ==
    \A l \in LayoutsOf(store) :
        \A rows \in Orders(PlacementsIn(store, l)) :
            FilterAvailable(ParseOccupied(rows), l.ncols, l.nrows)
                = find_available_positions(store, l.id, l.ncols, l.nrows)

\* A batch has left two placements on different cells of one layout, which
\* the query may return in either order.
C14_Witness ==
    /\ InsertSucceeded
    /\ \E l \in Targets(prev, last.sel) :
          \E p \in PlacementsIn(store, l) : \E q \in PlacementsIn(store, l) :
              p.GridPosition # q.GridPosition

(* ------------------------------- C15 ---------------------------------- *)

NoSharedCoordinate(db) ==
    \A p \in db.ElementPlacement : \A q \in db.ElementPlacement :
        (p # q /\ p.PageLayoutId = q.PageLayoutId) => p.GridPosition # q.GridPosition

\* C15: from a store in which no two ElementPlacement rows of one layout
\* share a GridPosition, no sequence of add_home_button and
\* add_buttons_from_pptx calls, successful or failed, reaches a store in
\* which two ElementPlacement rows of one layout share a GridPosition.
C15_NoSharedCoordinate == NoSharedCoordinate(store)

(* ------------------------------- C16 ---------------------------------- *)

ReferentialIntegrity(db) ==
    /\ \A b \in db.Button : \E r \in db.ElementReference : r.Id = b.ElementReferenceId
    /\ \A p \in db.ElementPlacement :
          /\ \E r \in db.ElementReference : r.Id = p.ElementReferenceId
          /\ \E l \in db.PageLayout : l.Id = p.PageLayoutId

\* C16: in every committed store that add_home_button and
\* add_buttons_from_pptx reach, every Button references an ElementReference
\* row of the store, and every ElementPlacement references an
\* ElementReference row and a PageLayout row of the store.
C16_ReferentialIntegrity == ReferentialIntegrity(store)

\* The home cell was copied from the template and a batch was committed
\* after it, into a Board of two layouts.
C16_Witness ==
    /\ InsertSucceeded
    /\ HasHomeButton(prev)
    /\ Cardinality(Targets(prev, last.sel)) = 2
    /\ NewRows("ElementPlacement") # {}

(* ------------------------------- C17 ---------------------------------- *)

\* C17: whatever selected_layout_ids is, every ElementReference row that a
\* successful add_buttons_from_pptx call has created is referenced by
\* exactly one Button and by at least one ElementPlacement: also when the
\* selection names none of the Board's layouts, the call commits no Button
\* and no ElementReference without a placement.
C17_EveryReferencePlaced ==
    InsertSucceeded =>
        \A r \in NewRows("ElementReference") :
            /\ Cardinality({b \in store.Button : b.ElementReferenceId = r.Id}) = 1
            /\ \E p \in store.ElementPlacement : p.ElementReferenceId = r.Id

(* ------------------------------- C18 ---------------------------------- *)

\* C18: the capacity check and the writes of one add_buttons_from_pptx call
\* are one serializable transaction.  No write that another operation
\* commits to the file takes effect between the call's reads of the free
\* coordinates and the starting ids and its commit, so the free lists the
\* placement loop uses are the free lists the capacity check counted.
C18_CheckAndWritesOneTransaction ==
    (last.op = "insert" /\ pending = Idle) => last.used = last.counted

(* ------------------------------- C19 ---------------------------------- *)

\* A navigation cell of a grid of ncols columns and nrows rows per page.
NavigationCell(col, row, ncols, nrows) ==
    \/ (col = ncols - 1 /\ row % nrows = nrows - 1)
    \/ (col = ncols - 1 /\ row % nrows = 0 /\ row # 0)

\* C19: every ElementPlacement that a successful add_buttons_from_pptx call
\* has created in a layout of c columns and r rows has a GridPosition
\* (col, row) with 0 <= col < c and 0 <= row < r * 10 that is no navigation
\* cell and that no ElementPlacement of the layout held before the call;
\* item j of the batch has the j-th entry of the free list that the layout
\* had before the call.
C19_PlacementCoordinates ==
    InsertSucceeded =>
        \A l \in Targets(prev, last.sel) :
            LET free == find_available_positions(prev, l.id, l.ncols, l.nrows)
                refId0 == SequenceOf(prev, "ElementReference") + 1
                created == {p \in NewRows("ElementPlacement") : p.PageLayoutId = l.id}
            IN /\ \A p \in created :
                     LET col == p.GridPosition[1]
                         row == p.GridPosition[2]
                     IN /\ 0 <= col /\ col < l.ncols
                        /\ 0 <= row /\ row < l.nrows * 10
                        /\ ~NavigationCell(col, row, l.ncols, l.nrows)
                        /\ \A q \in PlacementsIn(prev, l) : q.GridPosition # p.GridPosition
               /\ \A j \in 1..last.n :
                     \E p \in created :
                         /\ p.ElementReferenceId = refId0 + (j - 1)
                         /\ p.GridPosition = free[j]

\* Two items went into a layout that held a placement, the second item on a
\* later page row than the first.
C19_Witness ==
    /\ InsertSucceeded
    /\ last.n = 2
    /\ \E l \in Targets(prev, last.sel) :
          /\ PlacementsIn(prev, l) # {}
          /\ \E p \in NewRows("ElementPlacement") : \E q \in NewRows("ElementPlacement") :
                /\ p.PageLayoutId = l.id /\ q.PageLayoutId = l.id
                /\ p.GridPosition[2] < q.GridPosition[2]

(* ------------------------------- C20 ---------------------------------- *)

\* C20: the migration of add_home_button rewrites the PageId only of the
\* ElementReference rows it copied from the template.  Every
\* ElementReference row the store held before the call, such as one owned
\* by the Dashboard page, is in the store after the call with the PageId it
\* had.
C20_OtherReferencesKeepOwner ==
    (last.op = "home" /\ last.outcome = "migrated")
    => \A r \in prev.ElementReference :
           \E q \in store.ElementReference : q.Id = r.Id /\ q.PageId = r.PageId

(* ------------------------------- C21 ---------------------------------- *)

\* C21: add_buttons_from_pptx only adds rows.  A successful call with a
\* given selection of layouts creates no ElementPlacement in a layout
\* outside the selection, and every Button, ElementReference,
\* CommandSequence and ElementPlacement row the store held before the call
\* is in the store after it, unchanged.
C21_InsertOnlyAdds ==
    InsertSucceeded =>
        /\ \A t \in ContentTables : prev[t] \subseteq store[t]
        /\ \A t \in ContentTables : Ids(NewRows(t)) \cap Ids(prev[t]) = {}
        /\ last.sel.given =>
              \A p \in NewRows("ElementPlacement") : p.PageLayoutId \in last.sel.ids

\* A batch went into the first of the Board's two layouts only, in a store
\* that held rows in all four tables and a placement in the other layout.
C21_Witness ==
    /\ InsertSucceeded
    /\ last.sel = [given |-> TRUE, ids |-> {2}]
    /\ Len(get_page_layout_details(prev).layouts) = 2
    /\ \A t \in ContentTables : prev[t] # {}
    /\ \E p \in prev.ElementPlacement : p.PageLayoutId = 3
    /\ NewRows("ElementPlacement") # {}

(* ------------------------------- C22 ---------------------------------- *)

\* C22: the callers' temporary working copy is deleted on every exit path
\* of the conversion sequence (create copy, add_home_button,
\* add_buttons_from_pptx, title update, timestamp update, read back), also
\* on the paths where one of these steps raised: when the sequence is over,
\* the file does not exist.
C22_TempFileDeleted ==
    caller.pc \in {"done", "failed"} => ~caller.temp

(* ------------------------------- C23 ---------------------------------- *)

Reported == last.op = "capacity" /\ last.err.kind = "none"

\* The coordinates of the layout's placements that are cells of the grid
\* and not navigation cells: the cells they take from the free list.
TakenCells(db, info) ==
    {p.GridPosition : p \in {q \in db.ElementPlacement : q.PageLayoutId = info.id}}
    \cap {pos \in (0..(info.ncols - 1)) \X (0..(info.nrows * 10 - 1)) :
             ~NavigationCell(pos[1], pos[2], info.ncols, info.nrows)}

\* C23 as stated: in the report of get_grid_capacity every layout has
\* available_cells = ncols * nrows * 10 - 19 - occupied_cells, whatever
\* coordinates its placements hold (here for the layouts of two or more
\* rows, which have their 19 navigation cells).
C23_AsStated ==
    Reported =>
        \A k \in DOMAIN last.report.layouts :
            LET info == last.report.layouts[k] IN
            info.nrows >= 2 =>
                info.available_cells
                    = info.ncols * info.nrows * 10 - 19 - info.occupied_cells

\* C23, amended: in the report, reserved_cells is 19 and for every layout
\* cells_per_page is ncols * nrows, occupied_cells is the number of the
\* layout's ElementPlacement rows, and available_cells is ncols * nrows * 10
\* less the navigation cells (19 with two or more rows, 10 with one row)
\* less the distinct cells that placements hold outside the navigation
\* cells.  available_cells = ncols * nrows * 10 - 19 - occupied_cells holds
\* when the layout has two or more rows and its placements hold distinct
\* cells none of which is a navigation cell; a placement on a navigation
\* cell, such as a home cell on the bottom-right corner, is counted in
\* occupied_cells and takes nothing from available_cells.
C23_ReportCounts ==
    Reported =>
        /\ last.report.reserved_cells = 19
        /\ Len(last.report.layouts) = Len(get_page_layout_details(store).layouts)
        /\ \A k \in DOMAIN last.report.layouts :
              LET info == last.report.layouts[k]
                  rows == {q \in store.ElementPlacement : q.PageLayoutId = info.id}
                  taken == TakenCells(store, info)
                  navigation == IF info.nrows = 1 THEN 10 ELSE 19
              IN /\ info.cells_per_page = info.ncols * info.nrows
                 /\ info.occupied_cells = Cardinality(rows)
                 /\ info.available_cells
                       = info.ncols * info.nrows * 10 - navigation - Cardinality(taken)
                 /\ (info.nrows >= 2 /\ Cardinality(taken) = Cardinality(rows))
                       => info.available_cells
                             = info.ncols * info.nrows * 10 - 19 - info.occupied_cells
                 /\ (info.nrows >= 2 /\ Cardinality(taken) < Cardinality(rows))
                       => info.available_cells
                             > info.ncols * info.nrows * 10 - 19 - info.occupied_cells

\* The report of a 2 by 2 layout that holds the home cell on its
\* bottom-right corner and a batch item on a free cell.
C23_Witness ==
    /\ Reported
    /\ \E k \in DOMAIN last.report.layouts :
          LET info == last.report.layouts[k] IN
          /\ info.ncols = 2 /\ info.nrows = 2
          /\ info.occupied_cells = 2
          /\ info.available_cells = 20
          /\ \E p \in store.ElementPlacement :
                p.PageLayoutId = info.id /\ p.GridPosition = <<1, 1>>

====
